---- MODULE Spec2Model ----
(***************************************************************************)
(* A model of Coordonates_cadastral_number.py: the Streamlit page that     *)
(* queues cadastral lookups (st.session_state.recorduri), fetches each     *)
(* parcel from the cadastral service, reprojects its rings, deduplicates   *)
(* the vertices across the batch and explodes the batch into one row per   *)
(* vertex (st.session_state.df_output).                                    *)
(*                                                                         *)
(* Encoding.  A Python value that may be None is an option: None is <<>>,  *)
(* Some(v) is <<v>>.  A Python float is an exact reduced fraction          *)
(* <<num, den>>.  A string built by concatenation is the sequence of its   *)
(* pieces.  A missing cell of a pandas column (None or NaN) is None.       *)
(***************************************************************************)
EXTENDS Integers, Sequences, FiniteSets, TLC

\* ------------------------------------------------------------------ bounds

\* Rings per polygon and points per ring of the service's geometries.
MaxRings == 2
MaxRingLen == 2
\* Total points of a polygon the service returns to a batch: in the one run
\* of a fresh session (SpecRun), and in the whole session (Spec).
MaxRunPts == 3
MaxServedPts == 1

\* The EPSG:3844 points the service's rings are drawn from, as offsets in
\* metres from the grid's false origin; the whole session sees two of them.
GridPoints == {<<0, 0>>, <<1, 0>>, <<1, 1>>}
ServedPoints == {<<0, 0>>, <<1, 0>>}

\* --------------------------------------------------------------- encodings

None == <<>>
Some(v) == <<v>>
IsSome(o) == o # <<>>
The(o) == o[1]

Range(s) == {s[k] : k \in 1..Len(s)}

RECURSIVE Gcd(_, _)
Gcd(a, b) == IF b = 0 THEN a ELSE Gcd(b, a % b)

\* A float holding the integral value n.
Float(n) == <<n, 1>>
\* f / n, Python's true division of a float by len(...); n = 0 raises
\* ZeroDivisionError and is decided by the caller.
FloatDiv(f, n) ==
    LET g == Gcd(f[1], f[2] * n) IN <<f[1] \div g, (f[2] * n) \div g>>
FloatAdd(f, h) ==
    LET num == f[1] * h[2] + h[1] * f[2]
        den == f[2] * h[2]
        g == Gcd(num, den)
    IN <<num \div g, den \div g>>

\* sum(x for x, y in coords) for axis = 1, sum(y for x, y in coords) for 2.
RECURSIVE FloatSum(_, _)
FloatSum(coords, axis) ==
    IF coords = <<>> THEN Float(0)
    ELSE FloatAdd(Head(coords)[axis], FloatSum(Tail(coords), axis))

\* ---------------------------------------------------------- the transformer

\* Transformer.from_crs("EPSG:3844", "EPSG:4326", always_xy=True): the grid's
\* false origin lies at 25 E, 46 N.
LonOrigin == 25
LatOrigin == 46

\* transformer.transform(x, y): with always_xy the easting gives the first
\* component (a longitude) and the northing the second (a latitude).  One
\* metre of offset is one unit of the result here: an injective stand-in for
\* the oblique stereographic projection.
Transform(p) == <<Float(LonOrigin + p[1]), Float(LatOrigin + p[2])>>

ConvertRing(ring) == [k \in 1..Len(ring) |-> Transform(ring[k])]

\* converted_coordinates after the loop over the rings.
ExtendLastRing(rings) ==
    IF rings = <<>> THEN <<>> ELSE ConvertRing(rings[Len(rings)])
RECURSIVE ExtendRings(_)
ExtendRings(rings) ==
    IF rings = <<>> THEN <<>>
    ELSE ConvertRing(Head(rings)) \o ExtendRings(Tail(rings))

\* ------------------------------------------------------- the service's JSON

RingsOver(points) == UNION {[1..n -> points] : n \in 0..MaxRingLen}
GeometriesOver(points) == UNION {[1..n -> RingsOver(points)] : n \in 0..MaxRings}
Geometries == GeometriesOver(GridPoints)

RECURSIVE TotalPoints(_)
TotalPoints(rings) ==
    IF rings = <<>> THEN 0 ELSE Len(Head(rings)) + TotalPoints(Tail(rings))

\* A response body: text that is no JSON, the JSON object {} (falsy in
\* Python), {"error": ...} without "features", {"features": []},
\* {"features": [{}]} without a geometry, or a polygon.
Body(kind, rings) == [kind |-> kind, rings |-> rings]
PolygonBody(rings) == Body("polygon", rings)
BodyKinds == {"malformed", "empty_object", "no_features_key", "zero_features",
              "no_geometry"}

\* bool(json_data) of `if json_data:`.
Truthy(json) == json.kind # "empty_object"

\* json_data["features"][0]["geometry"]["rings"]: the exception it raises,
\* or "none".
RingsLookup(json) ==
    CASE json.kind = "no_features_key" -> "KeyError"
      [] json.kind = "zero_features" -> "IndexError"
      [] json.kind = "no_geometry" -> "KeyError"
      [] OTHER -> "none"

Result(raised, coords, lat, lon) ==
    [raised |-> raised, coords |-> coords, central_lat |-> lat, central_lon |-> lon]

\* central_lat is the mean of the first components, central_lon of the second.
CentralLat(coords) == FloatDiv(FloatSum(coords, 1), Len(coords))
CentralLon(coords) == FloatDiv(FloatSum(coords, 2), Len(coords))

\* convert_coordinates(json_data), json_data an option.
convert_coordinates(json_data) ==
    IF IsSome(json_data) /\ Truthy(The(json_data))
    THEN LET json == The(json_data)
             converted_coordinates == ExtendRings(json.rings)
         IN IF RingsLookup(json) # "none"
            THEN Result(RingsLookup(json), None, None, None)
            ELSE IF Len(converted_coordinates) = 0
            THEN Result("ZeroDivisionError", None, None, None)
            ELSE Result("none", Some(converted_coordinates),
                        Some(CentralLat(converted_coordinates)),
                        Some(CentralLon(converted_coordinates)))
    ELSE Result("none", None, None, None)

\* ------------------------------------------------------------- the fetcher

\* A response of requests.get: its status code (200, or 404) and its body.
Response(status, body) == [status |-> status, body |-> body]

\* fetch_json's outcome: the exception raised past it ("none" when it
\* returns) and the value returned.  response.json() raises on a body that
\* is no JSON; a status other than 200 returns None.
Fetched(raised, json) == [raised |-> raised, json |-> json]
fetch_json(response) ==
    IF response.status = 200
    THEN IF response.body.kind = "malformed"
         THEN Fetched("JSONDecodeError", None)
         ELSE Fetched("none", Some(response.body))
    ELSE Fetched("none", None)

\* -------------------------------------------------------- the record store

\* localitati_IDs.xlsx: the rows (Judet, Judet_ID, Comuna, Comuna_ID).
Localitati ==
    {[Judet |-> "Gorj", Judet_ID |-> 181, Comuna |-> "Pades", Comuna_ID |-> 81095]}
\* What st.number_input can hold (min_value=0).
NrValues == {0, 39107}

\* The f-string of `link`: the INSPIRE_ID it asks for.
Link(judet_id, comuna_id, nr) == <<"RO", judet_id, comuna_id, nr>>

Record(judet, judet_id, comuna, comuna_id, nr, link) ==
    [Judet |-> judet, Judet_ID |-> judet_id, Comuna |-> comuna,
     Comuna_ID |-> comuna_id, Numar |-> nr, Link |-> link]

dummy_records ==
    << Record("Arges", 36, "Ungheni", 19560, 12476, Link(38, 19560, 12476)),
       Record("Gorj", 181, "Pades", 81095, 39107, Link(181, 81095, 39107)) >>

\* `if record not in recorduri: recorduri.append(record)`.
AppendIfNewAlways(recorduri, record) == Append(recorduri, record)
AppendIfNew(recorduri, record) ==
    IF record \in Range(recorduri) THEN recorduri ELSE Append(recorduri, record)

RECURSIVE AppendAllNew(_, _)
AppendAllNew(recorduri, records) ==
    IF records = <<>> THEN recorduri
    ELSE AppendAllNew(AppendIfNew(recorduri, Head(records)), Tail(records))

\* recorduri.pop(index), index counted from 1 here.
Pop(recorduri, index) ==
    [k \in 1..(Len(recorduri) - 1) |->
        IF k < index THEN recorduri[k] ELSE recorduri[k + 1]]

\* df['Link'].apply(...): the anchor's HTML, and the regular expression
\* that reads the href back.
Anchor(url) == <<"<a href=\"", url, "\" target=\"_blank\">request_link</a>">>
extract_url_from_html(html) ==
    IF Len(html) = 3 /\ html[1] = "<a href=\"" THEN Some(html[2]) ELSE None

\* df = pd.DataFrame(st.session_state.recorduri) with its Link column
\* rewritten.
FrameOfTail(recorduri) ==
    [k \in 1..(Len(recorduri) - 1) |->
        [recorduri[k + 1] EXCEPT !.Link = Anchor(recorduri[k + 1].Link)]]
FrameOf(recorduri) ==
    [k \in 1..Len(recorduri) |-> [recorduri[k] EXCEPT !.Link = Anchor(recorduri[k].Link)]]

\* ------------------------------------------------------ the vertex collector

\* [coord for coord in converted_coordinates if coord not in unique_coordinates]
KeepAll(converted_coordinates, unique_coordinates) == converted_coordinates
Unique(converted_coordinates, unique_coordinates) ==
    SelectSeq(converted_coordinates, LAMBDA coord : coord \notin unique_coordinates)

\* One position of the six lists the loop appends to.
Entry(judet, comuna, nr, coords, lat, lon) ==
    [County |-> judet, LocalUAT |-> comuna, Cadastral |-> nr,
     Converted_Coordinates |-> coords, Central_Lat |-> lat, Central_Lon |-> lon]
NoDataEntry == Entry(None, None, None, None, None, None)

\* ------------------------------------------------------ the tabular projector

\* df_output.explode("Converted_Coordinates"): a list gives one row per
\* element, and None or an empty list gives one row whose cell is missing.
ExplodeEntry(entry) ==
    LET coords == entry.Converted_Coordinates
    IN IF IsSome(coords) /\ The(coords) # <<>>
       THEN [k \in 1..Len(The(coords)) |-> [entry |-> entry, cell |-> Some(The(coords)[k])]]
       ELSE << [entry |-> entry, cell |-> None] >>

RECURSIVE Explode(_)
Explode(entries) ==
    IF entries = <<>> THEN <<>>
    ELSE ExplodeEntry(Head(entries)) \o Explode(Tail(entries))

\* .astype(str) of a column of floats: the text of a float, of a missing cell.
Str(o) == IF IsSome(o) THEN <<"float", The(o)[1], The(o)[2]>> ELSE <<"nan", 0, 0>>

MapsLink(first, second) == <<"https://maps.google.com/?q=", first, ",", second>>

\* One row of df_output: 'Lat' is the cell's first component and 'Long' its
\* second; the vertex's link is built from Lat, Long and the central point's
\* from Central_Lon, Central_Lat.
OutputRow(exploded) ==
    LET e == exploded.entry
        Lat == IF IsSome(exploded.cell) THEN Some(The(exploded.cell)[1]) ELSE None
        Long == IF IsSome(exploded.cell) THEN Some(The(exploded.cell)[2]) ELSE None
    IN [County |-> e.County, LocalUAT |-> e.LocalUAT, Cadastral |-> e.Cadastral,
        Central_Lat |-> e.Central_Lat, Central_Lon |-> e.Central_Lon,
        Lat |-> Lat, Long |-> Long,
        GoogleMapsLink |-> MapsLink(Str(Lat), Str(Long)),
        GoogleMapsLinkCentral |-> MapsLink(Str(e.Central_Lon), Str(e.Central_Lat))]

Output(raised, rows) == [raised |-> raised, rows |-> rows]

\* create_output_dataframe(df): what it can do.  The split into 'Lat' and
\* 'Long' goes through pd.DataFrame(cells.tolist()):
\*  - every cell a tuple: two columns, one row per vertex;
\*  - the first cell missing: pandas builds one column, and assigning it to
\*    the two keys raises ValueError ("Columns must be same length as key");
\*  - the first cell a tuple and a later one missing: by the pandas release,
\*    either TypeError from the tuple conversion, or a row of missing
\*    values for that cell.
create_output_dataframe(entries) ==
    LET exploded == Explode(entries)
        rows == [k \in 1..Len(exploded) |-> OutputRow(exploded[k])]
    IN IF \A k \in 1..Len(exploded) : IsSome(exploded[k].cell)
       THEN {Output("none", rows)}
       ELSE IF IsSome(exploded[1].cell)
       THEN {Output("TypeError", <<>>), Output("none", rows)}
       ELSE {Output("ValueError", <<>>)}

\* ------------------------------------------------------------------- state

VARIABLES
    recorduri,              \* st.session_state.recorduri
    df_output,              \* st.session_state.df_output, an option
    pc,                     \* "idle": between script runs; "loop": in the batch loop
    df,                     \* the frame the running script built from recorduri
    idx,                    \* the position in df the loop is at (from 1)
    lists,                  \* the six *_list locals, one entry per position
    unique_coordinates,     \* the set of vertices stored so far in this run
    converted_coordinates,  \* the local of that name, an option
    requests,               \* the URLs requests.get was given by the running script
    raised,                 \* the exception that ended the last script run, or "none"
    json_data,              \* SpecTransform: the argument of convert_coordinates
    returned                \* SpecTransform: what the call returned, an option

vars == <<recorduri, df_output, pc, df, idx, lists, unique_coordinates,
          converted_coordinates, raised, requests, json_data, returned>>

locals == <<df, idx, lists, unique_coordinates, converted_coordinates, requests>>
transformVars == <<json_data, returned>>
appVars == <<recorduri, df_output, pc, df, idx, lists, unique_coordinates,
             converted_coordinates, raised, requests>>

\* The locals of main() are gone when the script run ends.
LocalsGone ==
    /\ df' = <<>>
    /\ idx' = 0
    /\ lists' = <<>>
    /\ unique_coordinates' = {}
    /\ converted_coordinates' = None
    /\ requests' = <<>>

AppInit ==
    /\ df_output = None
    /\ pc = "idle"
    /\ df = <<>>
    /\ idx = 0
    /\ lists = <<>>
    /\ unique_coordinates = {}
    /\ converted_coordinates = None
    /\ raised = "none"
    /\ requests = <<>>

Init ==
    /\ AppInit
    /\ recorduri = <<>>
    /\ json_data = None
    /\ returned = None

\* ----------------------------------------------------------------- actions

\* A script run in which a button other than "Processing Data" was pressed.
OtherRun ==
    /\ pc' = "idle"
    /\ raised' = "none"
    /\ LocalsGone
    /\ UNCHANGED <<df_output, transformVars>>

\* st.button("Add") with the widgets holding loc and nr.
Add(loc, nr) ==
    /\ pc = "idle"
    /\ recorduri' =
          IF nr # 0
          THEN AppendIfNew(recorduri,
                   Record(loc.Judet, loc.Judet_ID, loc.Comuna, loc.Comuna_ID, nr,
                          Link(loc.Judet_ID, loc.Comuna_ID, nr)))
          ELSE recorduri
    /\ OtherRun

\* st.button("Add Dummy Data").
AddDummyData ==
    /\ pc = "idle"
    /\ recorduri' = AppendAllNew(recorduri, dummy_records)
    /\ OtherRun

\* st.button("Delete", key=f"delete_{i}") -> delete_record(i).
Delete(i) ==
    /\ pc = "idle"
    /\ i \in 1..Len(recorduri)
    /\ recorduri' = Pop(recorduri, i)
    /\ OtherRun

\* st.button("Processing Data"): shown when recorduri is not empty; the
\* lists and the set start empty.
ProcessingData ==
    /\ pc = "idle"
    /\ recorduri # <<>>
    /\ pc' = "loop"
    /\ df' = FrameOf(recorduri)
    /\ idx' = 1
    /\ lists' = <<>>
    /\ unique_coordinates' = {}
    /\ converted_coordinates' = None
    /\ raised' = "none"
    /\ requests' = <<>>
    /\ UNCHANGED <<recorduri, df_output, transformVars>>

\* An exception leaves main(): the script run ends, session state stays.
Raise(exception) ==
    /\ pc' = "idle"
    /\ raised' = exception
    /\ LocalsGone
    /\ UNCHANGED <<recorduri, df_output>>

\* The loop goes on to the next row: `entry` is appended to the lists and
\* `fetched` holds the URL given to requests.get, if one was.
NextRecord(entry, fetched) ==
    /\ lists' = Append(lists, entry)
    /\ idx' = idx + 1
    /\ requests' = requests \o fetched
    /\ UNCHANGED <<pc, df, raised, recorduri, df_output>>

\* The `else` branches: every list gets None.
NoData(fetched) ==
    /\ NextRecord(NoDataEntry, fetched)
    /\ UNCHANGED <<unique_coordinates, converted_coordinates>>

\* The branch of a truthy json_data that convert_coordinates took.
Store(row, url, result) ==
    LET unique_converted_coordinates == Unique(The(result.coords), unique_coordinates)
    IN /\ NextRecord(Entry(Some(row.Judet), Some(row.Comuna), Some(row.Numar),
                           Some(unique_converted_coordinates),
                           result.central_lat, result.central_lon),
                     <<url>>)
       /\ converted_coordinates' = result.coords
       /\ unique_coordinates' = unique_coordinates \cup Range(unique_converted_coordinates)

\* The responses the service can give: an error page, a 200 that holds no
\* polygon, or a polygon of at most maxPts points.
ResponsesOver(points, maxPts) ==
    {Response(404, Body("malformed", <<>>))}
    \cup {Response(200, Body(kind, <<>>)) : kind \in BodyKinds}
    \cup {Response(200, PolygonBody(g)) :
            g \in {h \in GeometriesOver(points) : TotalPoints(h) <= maxPts}}
ServedResponses == ResponsesOver(ServedPoints, MaxServedPts)
RunResponses == ResponsesOver(GridPoints, MaxRunPts)

\* One pass of `for index, row in df.iterrows()`, the service answering
\* with one of Responses.
ProcessRecord(Responses) ==
    /\ pc = "loop"
    /\ idx <= Len(df)
    /\ LET row == df[idx]
           url == extract_url_from_html(row.Link)
       IN IF IsSome(url)
          THEN \E response \in Responses :
                 LET fetched == fetch_json(response)
                     result == convert_coordinates(fetched.json)
                 IN IF fetched.raised # "none"
                    THEN Raise(fetched.raised)
                    ELSE IF IsSome(fetched.json) /\ Truthy(The(fetched.json))
                    THEN IF result.raised # "none"
                         THEN Raise(result.raised)
                         ELSE Store(row, The(url), result)
                    ELSE NoData(<<The(url)>>)
          ELSE NoData(<<>>)
    /\ UNCHANGED transformVars

\* After the loop: df_output = create_output_dataframe(...), stored in the
\* session state.
CreateOutput ==
    /\ pc = "loop"
    /\ idx > Len(df)
    /\ \E output \in create_output_dataframe(lists) :
          IF output.raised = "none"
          THEN /\ df_output' = Some(output.rows)
               /\ pc' = "idle"
               /\ raised' = "none"
               /\ LocalsGone
               /\ UNCHANGED recorduri
          ELSE Raise(output.raised)
    /\ UNCHANGED transformVars

Next ==
    \/ \E loc \in Localitati, nr \in NrValues : Add(loc, nr)
    \/ AddDummyData
    \/ \E i \in 1..Len(recorduri) : Delete(i)
    \/ ProcessingData
    \/ ProcessRecord(ServedResponses)
    \/ CreateOutput

Spec == Init /\ [][Next]_vars

\* ------------------------------------- one batch run in a fresh session

\* The record stores Add, Add Dummy Data and Delete can build.
AllRecords ==
    Range(dummy_records)
    \cup {Record(loc.Judet, loc.Judet_ID, loc.Comuna, loc.Comuna_ID, nr,
                 Link(loc.Judet_ID, loc.Comuna_ID, nr)) :
            loc \in Localitati, nr \in NrValues \ {0}}
Stores ==
    {s \in UNION {[1..n -> AllRecords] : n \in 0..Cardinality(AllRecords)} :
        \A j, k \in 1..Len(s) : j # k => s[j] # s[k]}

RunInit ==
    /\ AppInit
    /\ recorduri \in Stores
    /\ json_data = None
    /\ returned = None

\* The first press of "Processing Data" in the session.
FirstProcessingData ==
    /\ df_output = None
    /\ raised = "none"
    /\ ProcessingData

RunNext ==
    \/ FirstProcessingData
    \/ ProcessRecord(RunResponses)
    \/ CreateOutput

SpecRun == RunInit /\ [][RunNext]_vars

\* ---------------------------------------- convert_coordinates on its own

TransformInputs ==
    {None}
    \cup {Some(Body(kind, <<>>)) : kind \in BodyKinds \ {"malformed"}}
    \cup {Some(PolygonBody(g)) : g \in Geometries}

TransformInit ==
    /\ AppInit
    /\ recorduri = <<>>
    /\ json_data \in TransformInputs
    /\ returned = None

Call ==
    /\ returned = None
    /\ returned' = Some(convert_coordinates(json_data))
    /\ UNCHANGED <<json_data, appVars>>

SpecTransform == TransformInit /\ [][Call]_vars

\* ------------------------------------------------------------ properties

NoDuplicates(s) == \A j, k \in 1..Len(s) : j # k => s[j] # s[k]
IsPrefix(s, t) == Len(s) <= Len(t) /\ \A k \in 1..Len(s) : s[k] = t[k]
Count(s, v) == Cardinality({k \in 1..Len(s) : s[k] = v})

\* s with every occurrence of v taken out.
RECURSIVE Without(_, _)
Without(s, v) ==
    IF s = <<>> THEN <<>>
    ELSE IF Head(s) = v THEN Without(Tail(s), v)
    ELSE <<Head(s)>> \o Without(Tail(s), v)

\* The k-th point of a polygon, counting through its rings in order.
RECURSIVE NthPoint(_, _)
NthPoint(rings, k) ==
    IF k <= Len(Head(rings)) THEN Head(rings)[k]
    ELSE NthPoint(Tail(rings), k - Len(Head(rings)))

\* The sum of the numerators of one axis of vertices whose floats are integral.
RECURSIVE AxisTotal(_, _)
AxisTotal(coords, axis) ==
    IF coords = <<>> THEN 0 ELSE Head(coords)[axis][1] + AxisTotal(Tail(coords), axis)

\* The float f is total / n.
IsMean(f, total, n) == f[1] * n = total * f[2] /\ f[2] > 0

\* --- C5 (SpecTransform) ---
\* C5: for a polygon with at least one ring and at least one point,
\* convert_coordinates returns the projected points of all rings, ring after
\* ring and point after point, as many as the rings hold together, and the
\* central point is the mean of the returned vertices, axis by axis.
C5_FlatConcatenationAndMean ==
    (IsSome(returned) /\ IsSome(json_data) /\ The(json_data).kind = "polygon"
       /\ TotalPoints(The(json_data).rings) >= 1)
    => LET rings == The(json_data).rings
           n == TotalPoints(rings)
           r == The(returned)
       IN /\ r.raised = "none"
          /\ IsSome(r.coords)
          /\ Len(The(r.coords)) = n
          /\ \A k \in 1..n : The(r.coords)[k] = Transform(NthPoint(rings, k))
          /\ IsSome(r.central_lat) /\ IsSome(r.central_lon)
          /\ IsMean(The(r.central_lat), AxisTotal(The(r.coords), 1), n)
          /\ IsMean(The(r.central_lon), AxisTotal(The(r.coords), 2), n)

\* Two rings of different points were flattened, and the mean is no vertex.
C5_Witness ==
    /\ IsSome(returned) /\ IsSome(json_data)
    /\ The(json_data).kind = "polygon"
    /\ Len(The(json_data).rings) = 2
    /\ Len(The(json_data).rings[1]) = 1
    /\ Len(The(json_data).rings[2]) = 2
    /\ The(json_data).rings[1][1] # The(json_data).rings[2][1]
    /\ The(returned).raised = "none"
    /\ The(The(returned).central_lat)[2] = 3

\* --- C4 (SpecTransform) ---
\* C4: convert_coordinates returns (None, None, None), and raises nothing,
\* when its input is None or a polygon whose rings hold no point at all.
C4_AllNoneOnNoPoints ==
    (IsSome(returned)
       /\ (json_data = None
           \/ (The(json_data).kind = "polygon" /\ TotalPoints(The(json_data).rings) = 0)))
    => The(returned) = Result("none", None, None, None)

\* --- C3 (Spec) ---
\* C3: no failure of a fetch leaves the fetcher as an exception: a body that
\* is no JSON, a response without features or without a geometry give the
\* absent result, so no script run ends in the exception they cause.
FetchFailures == {"JSONDecodeError", "KeyError", "IndexError"}
C3_FetcherNeverRaises == raised \notin FetchFailures

\* --- C10 (Spec) ---
\* C10: the two links of a row use one order of the axes: where a row's
\* vertex equals the central point, axis by axis, its two links are equal.
C10_LinksSameAxisOrder ==
    IsSome(df_output) =>
        \A k \in 1..Len(The(df_output)) :
            LET row == The(df_output)[k]
            IN (IsSome(row.Lat) /\ row.Lat = row.Central_Lat /\ row.Long = row.Central_Lon)
               => row.GoogleMapsLink = row.GoogleMapsLinkCentral

\* --- C8 (Spec) ---
\* C8: the record store never holds two equal records; a step that makes it
\* longer appends records that were not in it, a step that makes it shorter
\* takes out exactly one position and keeps the rest in order, and no other
\* step changes it.
C8_RecordStoreUnique ==
    /\ [](NoDuplicates(recorduri))
    /\ [][ /\ Len(recorduri') > Len(recorduri)
              => /\ IsPrefix(recorduri, recorduri')
                 /\ \A k \in (Len(recorduri) + 1)..Len(recorduri') :
                       recorduri'[k] \notin Range(recorduri)
           /\ Len(recorduri') < Len(recorduri)
              => /\ Len(recorduri') = Len(recorduri) - 1
                 /\ \E i \in 1..Len(recorduri) :
                       \A k \in 1..Len(recorduri') :
                          recorduri'[k] = IF k < i THEN recorduri[k] ELSE recorduri[k + 1]
           /\ Len(recorduri') = Len(recorduri) => recorduri' = recorduri
         ]_vars

\* Add stored the Gorj record, and Add Dummy Data then appended only the
\* Arges one.
C8_Witness == recorduri = <<dummy_records[2], dummy_records[1]>>

\* --- C9 (Spec) ---
\* C9 as claimed: when a processing run has completed, no request it fetched
\* is pending any more.
C9_BatchConsumedOnce ==
    [][ (pc = "loop" /\ pc' = "idle" /\ raised' = "none")
        => \A k \in 1..Len(recorduri') : recorduri'[k].Link \notin Range(requests) ]_vars

\* C9 as amended: a processing run leaves the record store as it is; it
\* fetches the pending requests in store order, all of them by the time it
\* completes, and they are all still pending afterwards (so the next run
\* fetches them again).
C9_BatchStaysPending ==
    /\ [](pc = "loop"
          => /\ idx \in 1..(Len(recorduri) + 1)
             /\ requests = [k \in 1..(idx - 1) |-> recorduri[k].Link])
    /\ [][ /\ (pc = "loop" \/ pc' = "loop") => recorduri' = recorduri
           /\ (pc = "loop" /\ pc' = "idle" /\ raised' = "none")
              => /\ Len(requests) = Len(recorduri)
                 /\ \A k \in 1..Len(recorduri') : recorduri'[k].Link \in Range(requests)
         ]_vars

\* A run after a completed one has fetched both pending requests again.
C9_Witness == pc = "loop" /\ IsSome(df_output) /\ Len(requests) = 2

\* --- C1 (SpecRun) ---
\* The two records of a batch were both stored: `first` and `second` are
\* their stored vertex lists and `secondConverted` is what
\* convert_coordinates returned for the second.
BothStored ==
    /\ pc = "loop"
    /\ Len(lists) = 2
    /\ IsSome(lists[1].Converted_Coordinates)
    /\ IsSome(lists[2].Converted_Coordinates)
    /\ IsSome(converted_coordinates)
FirstStored == The(lists[1].Converted_Coordinates)
SecondStored == The(lists[2].Converted_Coordinates)
SecondConverted == The(converted_coordinates)
Shared == Range(FirstStored) \cap Range(SecondConverted)

\* The first record of a run is stored as convert_coordinates returned it.
FirstStoredWhole ==
    (pc = "loop" /\ Len(lists) = 1 /\ IsSome(lists[1].Converted_Coordinates))
    => lists[1].Converted_Coordinates = converted_coordinates

\* The second record is stored without the one shared pair, the rest in
\* order, `dropped` vertices fewer than converted; no pair is stored twice.
FirstRecordWins(dropped) ==
    /\ FirstStoredWhole
    /\ BothStored
       => /\ Range(FirstStored) \cap Range(SecondStored) = {}
          /\ Cardinality(Shared) = 1
             => LET pair == CHOOSE v \in Shared : TRUE
                IN /\ pair \in Range(FirstStored)
                   /\ pair \notin Range(SecondStored)
                   /\ SecondStored = Without(SecondConverted, pair)
                   /\ Len(FirstStored) + Len(SecondStored)
                        = Len(FirstStored) + Len(SecondConverted) - dropped

OutputStep == pc = "loop" /\ idx > Len(df) /\ pc' = "idle"

HasVertices(entry) ==
    IsSome(entry.Converted_Coordinates) /\ The(entry.Converted_Coordinates) # <<>>

\* The scalar fields and the vertex of a row, without its links.
VertexRow(entry, vertex) ==
    [County |-> entry.County, LocalUAT |-> entry.LocalUAT, Cadastral |-> entry.Cadastral,
     Central_Lat |-> entry.Central_Lat, Central_Lon |-> entry.Central_Lon,
     Lat |-> Some(vertex[1]), Long |-> Some(vertex[2])]
WithoutLinks(row) ==
    [County |-> row.County, LocalUAT |-> row.LocalUAT, Cadastral |-> row.Cadastral,
     Central_Lat |-> row.Central_Lat, Central_Lon |-> row.Central_Lon,
     Lat |-> row.Lat, Long |-> row.Long]

\* One row per stored vertex, record after record in batch order.
RECURSIVE VertexRows(_)
VertexRows(entries) ==
    IF entries = <<>> THEN <<>>
    ELSE (IF HasVertices(Head(entries))
          THEN [k \in 1..Len(The(Head(entries).Converted_Coordinates)) |->
                   VertexRow(Head(entries), The(Head(entries).Converted_Coordinates)[k])]
          ELSE <<>>)
         \o VertexRows(Tail(entries))

\* The rows of a table that hold a vertex, without their links.
RECURSIVE RowsWithVertex(_)
RowsWithVertex(rows) ==
    IF rows = <<>> THEN <<>>
    ELSE (IF IsSome(Head(rows).Lat) THEN <<WithoutLinks(Head(rows))>> ELSE <<>>)
         \o RowsWithVertex(Tail(rows))

\* C2: a record whose fetch failed leaves the set of seen vertices as it
\* was and the loop goes on to the next record; and when the batch ends
\* the rows of the other records are the rows of the batch without it.
C2_FailureIsolated ==
    [][ /\ (pc = "loop" /\ idx <= Len(df) /\ Len(lists') = Len(lists) + 1
              /\ lists'[Len(lists')] = NoDataEntry)
           => /\ unique_coordinates' = unique_coordinates
              /\ pc' = "loop" /\ idx' = idx + 1
        /\ (OutputStep
              /\ (\E k \in 1..Len(lists) : lists[k] = NoDataEntry)
              /\ (\E k \in 1..Len(lists) : lists[k] # NoDataEntry)
              /\ (\A k \in 1..Len(lists) : lists[k] # NoDataEntry => HasVertices(lists[k])))
           => /\ raised' = "none"
              /\ IsSome(df_output')
              /\ RowsWithVertex(The(df_output'))
                   = VertexRows(SelectSeq(lists, LAMBDA e : e # NoDataEntry))
      ]_vars

\* C6: a batch with a record that has no vertex to show (its fetch failed,
\* or deduplication took all its vertices) still gives a table, without
\* raising, and that record adds no row to it: the table has one row per
\* stored vertex, those of the records after it included.
C6_NoRowsForEmptyRecord ==
    [][ (OutputStep /\ (\E k \in 1..Len(lists) : ~HasVertices(lists[k])))
        => /\ raised' = "none"
           /\ IsSome(df_output')
           /\ Len(The(df_output')) = Len(VertexRows(lists))
           /\ RowsWithVertex(The(df_output')) = VertexRows(lists)
      ]_vars

\* C7: every record with stored vertices gets one row per vertex, in the
\* order of the vertices and of the batch, each row with the record's own
\* county, UAT, number and central point, which is the mean over all the
\* vertices convert_coordinates returned for it.
C7_OneRowPerVertex ==
    [][ /\ (pc = "loop" /\ lists # <<>> /\ lists[Len(lists)] # NoDataEntry)
           => /\ lists[Len(lists)].County = Some(recorduri[Len(lists)].Judet)
              /\ lists[Len(lists)].LocalUAT = Some(recorduri[Len(lists)].Comuna)
              /\ lists[Len(lists)].Cadastral = Some(recorduri[Len(lists)].Numar)
              /\ IsMean(The(lists[Len(lists)].Central_Lat),
                        AxisTotal(The(converted_coordinates), 1),
                        Len(The(converted_coordinates)))
              /\ IsMean(The(lists[Len(lists)].Central_Lon),
                        AxisTotal(The(converted_coordinates), 2),
                        Len(The(converted_coordinates)))
        /\ (OutputStep /\ (\E k \in 1..Len(lists) : HasVertices(lists[k])))
           => /\ IsSome(df_output')
              /\ RowsWithVertex(The(df_output')) = VertexRows(lists)
      ]_vars

====
